---- MODULE Spec2Model ----
(***************************************************************************)
(* Model of ci_cd/utils/versions.py: the version-constraint updater        *)
(* update_specifier_set together with the packaging primitives it relies   *)
(* on (Specifier, SpecifierSet membership, Specifier equality).            *)
(*                                                                         *)
(* A version string is modelled by the sequence of its dot-separated       *)
(* numeric segments exactly as written ("2.0" is <<2, 0>>, "2" is <<2>>):  *)
(* the code slices the written segments, so "2" and "2.0.0" are different  *)
(* inputs although they compare equal.                                     *)
(*                                                                         *)
(* Several specifications share the module:                                *)
(*   Spec           update_specifier_set, called once and once again;      *)
(*   SpecOrder      the rich comparisons of SemanticVersion;               *)
(*   SpecConstruct  SemanticVersion from a str or from the fields, and     *)
(*                  from its own str();                                    *)
(*   SpecIgnore     ignore_version;                                        *)
(*   SpecPrevious   SemanticVersion.previous_version;                      *)
(*   SpecFind       find_minimum_py_version, pass by pass of its loop, and *)
(*                  SpecFindFair, the same with the call kept running;     *)
(*   SpecRules      parse_ignore_entries or create_ignore_rules, then      *)
(*                  parse_ignore_rules, then ignore_version.               *)
(* In all but the first and SpecFind a str is the sequence of its code     *)
(* points, so that matching the regular expressions, int(), str(), strip() *)
(* and the comparison of two str are worked out and not assumed.           *)
(***************************************************************************)
EXTENDS Integers, Sequences, FiniteSets, TLC

VARIABLES
    \* update_specifier_set: its arguments, and the outcome of two calls
    current, latest, pc, first, second,
    \* SemanticVersion ordering: three version strings, then what parsing and
    \* the rich comparisons gave
    versions, compared,
    \* SemanticVersion construction: the arguments, the object, and the object
    \* made from its string form
    arguments, constructed, reparsed,
    \* ignore_version: the arguments and the decision
    request, decision,
    \* previous_version: the object, the arguments, and what the call gave
    subject, previous,
    \* find_minimum_py_version: the arguments, the loop variable, the number
    \* of passes of the loop, and what was returned
    search, min_py_version, steps, answer,
    \* the ignore options on their way: what was given, the position reached,
    \* the parsed entries, the rules of one dependency, these rules parsed, and
    \* the decision on one version
    given, stage, ignore_entries, rules, ignore_rules, ignored

updateVars == <<current, latest, pc, first, second>>

orderVars == <<versions, compared>>

constructVars == <<arguments, constructed, reparsed>>

ignoreVars == <<request, decision>>

previousVars == <<subject, previous>>

findVars == <<search, min_py_version, steps, answer>>

rulesVars == <<given, stage, ignore_entries, rules, ignore_rules, ignored>>

vars == <<updateVars, orderVars, constructVars, ignoreVars, previousVars,
          findVars, rulesVars>>

\* The value of the variables of the operations a specification does not run.
Unused == <<>>

PreviousUnused == subject = Unused /\ previous = Unused

FindUnused ==
    /\ search = Unused /\ min_py_version = Unused
    /\ steps = Unused /\ answer = Unused

RulesUnused ==
    /\ given = Unused /\ stage = Unused /\ ignore_entries = Unused
    /\ rules = Unused /\ ignore_rules = Unused /\ ignored = Unused

EarlierUnused ==
    /\ current = Unused /\ latest = Unused /\ pc = Unused
    /\ first = Unused /\ second = Unused
    /\ versions = Unused /\ compared = Unused
    /\ arguments = Unused /\ constructed = Unused /\ reparsed = Unused
    /\ request = Unused /\ decision = Unused

\* Bound of the model: the sum of the segments of every input version.
MaxWeight == 2

\* major.minor.patch: the regular expression of SemanticVersion has three
\* numeric groups.
MaxSegments == 3

Operators == {"==", "!=", "<", "<=", ">", ">=", "~="}

Min(a, b) == IF a < b THEN a ELSE b

Minimum(S) == CHOOSE x \in S : \A y \in S : x <= y

RECURSIVE SumSeq(_)
SumSeq(s) == IF s = <<>> THEN 0 ELSE Head(s) + SumSeq(Tail(s))

\* Python slice s[:n]: the first n items, all of them when there are fewer.
Take(s, n) == SubSeq(s, 1, Min(n, Len(s)))

\* The i-th release segment, padded with zeros as packaging.version compares.
Release(v, i) == IF i <= Len(v) THEN v[i] ELSE 0

\* SemanticVersion.__init__: minor and patch default to 0.
SemanticVersion(version) ==
    [major |-> Release(version, 1),
     minor |-> Release(version, 2),
     patch |-> Release(version, 3)]

\* SemanticVersion.__str__: always major.minor.patch.
Str(semver) == <<semver.major, semver.minor, semver.patch>>

\* SemanticVersion.next_version.
next_version(semver, version_part) ==
    IF version_part = "major"
    THEN [major |-> semver.major + 1, minor |-> 0, patch |-> 0]
    ELSE IF version_part = "minor"
    THEN [major |-> semver.major, minor |-> semver.minor + 1, patch |-> 0]
    ELSE [major |-> semver.major, minor |-> semver.minor, patch |-> semver.patch + 1]

\* packaging.version ordering of two release-only versions.
VersionLess(a, b) ==
    \E i \in 1..MaxSegments :
        /\ Release(a, i) < Release(b, i)
        /\ \A j \in 1..(i - 1) : Release(a, j) = Release(b, j)

VersionEqual(a, b) == \A i \in 1..MaxSegments : Release(a, i) = Release(b, i)

\* Specifier.contains for a release-only item.
SpecifierContains(specifier, item) ==
    LET v == specifier.version
        op == specifier.operator
    IN  CASE op = "==" -> VersionEqual(item, v)
          [] op = "!=" -> ~VersionEqual(item, v)
          [] op = "<=" -> VersionLess(item, v) \/ VersionEqual(item, v)
          [] op = ">=" -> ~VersionLess(item, v)
          [] op = "<"  -> VersionLess(item, v)
          [] op = ">"  -> VersionLess(v, item)
          [] op = "~=" -> /\ ~VersionLess(item, v)
                          /\ \A i \in 1..(Len(v) - 1) : Release(item, i) = v[i]

\* `latest_version in current_specifier_set`.
SpecifierSetContains(specifier_set, item) ==
    \A specifier \in specifier_set : SpecifierContains(specifier, item)

\* canonicalize_version: trailing zero segments are dropped, except for `~=`.
RECURSIVE StripTrailingZeros(_)
StripTrailingZeros(v) ==
    IF Len(v) > 1 /\ v[Len(v)] = 0
    THEN StripTrailingZeros(SubSeq(v, 1, Len(v) - 1))
    ELSE v

\* Specifier.__eq__ / __hash__: equality of the canonical (operator, version).
SpecifierEqual(a, b) ==
    /\ a.operator = b.operator
    /\ IF a.operator = "~="
       THEN a.version = b.version
       ELSE StripTrailingZeros(a.version) = StripTrailingZeros(b.version)

\* Specifier(...): `~=` needs at least two release segments.
ValidSpecifier(specifier) ==
    /\ specifier.operator \in Operators
    /\ Len(specifier.version) >= 1
    /\ specifier.operator = "~=" => Len(specifier.version) >= 2

MakeSpecifier(op, version) == [operator |-> op, version |-> version]

\* `new_specifier_set |= {...}`: a Python set keeps the element it already has
\* when an equal one is added.
RECURSIVE SetUpdate(_, _)
SetUpdate(specifier_set, updated_specifiers) ==
    IF updated_specifiers = <<>>
    THEN specifier_set
    ELSE LET new == Head(updated_specifiers)
             added == IF \E old \in specifier_set : SpecifierEqual(old, new)
                      THEN specifier_set
                      ELSE specifier_set \cup {new}
         IN  SetUpdate(added, Tail(updated_specifiers))

\* The orders in which iterating a (hash-ordered) set may enumerate it.
Enumerations(S) ==
    {order \in [1..Cardinality(S) -> S] :
        \A e \in S : \E i \in 1..Cardinality(S) : order[i] = e}

\* The specifier at which a `for ... if ...: break` loop over `order` stops.
FirstWith(order, ops) ==
    LET hits == {i \in DOMAIN order : order[i].operator \in ops}
    IN  IF hits = {} THEN {} ELSE {order[Minimum(hits)]}

\* What one call leaves behind: how it ended, the set it returned, the specifier
\* it removed (the loop variable at `break`) and the list updated_specifiers.
Outcome(status, specifier_set, removed, updated) ==
    [status |-> status, specifier_set |-> specifier_set, removed |-> removed,
     updated |-> updated]

\* Finish without the `else: raise UnableToResolve`: the set is returned as is.
FinishWithoutRaise(new_specifier_set, removed, updated_specifiers) ==
    IF updated_specifiers = <<>>
    THEN Outcome("ok", new_specifier_set, {}, <<>>)
    ELSE IF \E i \in DOMAIN updated_specifiers : ~ValidSpecifier(updated_specifiers[i])
    THEN Outcome("InvalidSpecifier", {}, removed, updated_specifiers)
    ELSE Outcome("ok", SetUpdate(new_specifier_set, updated_specifiers),
                 removed, updated_specifiers)

\* Finish that builds the returned set from updated_specifiers alone.
FinishOnlyUpdated(new_specifier_set, removed, updated_specifiers) ==
    IF updated_specifiers = <<>>
    THEN Outcome("UnableToResolve", {}, {}, <<>>)
    ELSE IF \E i \in DOMAIN updated_specifiers : ~ValidSpecifier(updated_specifiers[i])
    THEN Outcome("InvalidSpecifier", {}, removed, updated_specifiers)
    ELSE Outcome("ok", SetUpdate({}, updated_specifiers), removed, updated_specifiers)

\* Lines 818-830: add the updated specifiers or raise.
Finish(new_specifier_set, removed, updated_specifiers) ==
    IF updated_specifiers = <<>>
    THEN Outcome("UnableToResolve", {}, {}, <<>>)
    ELSE IF \E i \in DOMAIN updated_specifiers : ~ValidSpecifier(updated_specifiers[i])
    THEN Outcome("InvalidSpecifier", {}, removed, updated_specifiers)
    ELSE Outcome("ok", SetUpdate(new_specifier_set, updated_specifiers),
                 removed, updated_specifiers)

\* Lines 732-749: latest is already admitted; re-pin the first `~=`/`==`.
UpdateIncluded(split_latest_version, current_specifier_set, order) ==
    LET found == FirstWith(order, {"~=", "=="})
    IN  IF found = {}
        THEN Outcome("ok", current_specifier_set, {}, <<>>)
        ELSE LET specifier == CHOOSE s \in found : TRUE
                 updated_version == Take(split_latest_version, Len(specifier.version))
             IN  Finish(current_specifier_set \ {specifier}, {specifier},
                        <<MakeSpecifier(specifier.operator, updated_version)>>)

\* The `<=` branch without the slice to the specifier's segments.
UpdateLessEqualUntruncated(split_latest_version, specifier) ==
    <<MakeSpecifier("<=", Str(SemanticVersion(split_latest_version)))>>

\* Lines 756-763: the `<=` branch.
UpdateLessEqual(split_latest_version, specifier) ==
    <<MakeSpecifier("<=", Take(split_latest_version, Len(specifier.version)))>>

\* The `<` branch stepping the specifier's own version instead of latest.
UpdateLessOfSpecifier(latest_version, specifier) ==
    LET n == Len(specifier.version)
        bound == SemanticVersion(specifier.version)
    IN  IF n = 1
        THEN <<MakeSpecifier("<", <<next_version(bound, "major").major>>)>>
        ELSE IF n = 2
        THEN <<MakeSpecifier("<", Take(Str(next_version(bound, "minor")), 2))>>
        ELSE <<MakeSpecifier("<", Str(next_version(bound, "patch")))>>

\* Lines 765-788: the `<` branch.
UpdateLess(latest_version, specifier) ==
    LET n == Len(specifier.version)
    IN  IF n = 1
        THEN <<MakeSpecifier("<", <<next_version(latest_version, "major").major>>)>>
        ELSE IF n = 2
        THEN <<MakeSpecifier("<", Take(Str(next_version(latest_version, "minor")), 2))>>
        ELSE <<MakeSpecifier("<", Str(next_version(latest_version, "patch")))>>

\* Lines 790-816: the `~=` branch.
UpdateCompatible(latest_version, split_latest_version, specifier) ==
    LET current_version == SemanticVersion(specifier.version)
    IN  IF latest_version.major > current_version.major
        THEN <<MakeSpecifier(">=", Str(current_version)),
               MakeSpecifier("<", <<next_version(latest_version, "major").major>>)>>
        ELSE <<MakeSpecifier("~=", Take(split_latest_version, Len(specifier.version)))>>

\* Lines 750-816: latest is not admitted; rewrite the first specifier the
\* iteration meets whose operator is `<=`, `<` or `~=`.
UpdateNotIncluded(latest_version, split_latest_version, current_specifier_set, order) ==
    LET found == FirstWith(order, {"<=", "<", "~="})
    IN  IF found = {}
        THEN Finish(current_specifier_set, {}, <<>>)
        ELSE LET specifier == CHOOSE s \in found : TRUE
                 updated_specifiers ==
                     IF specifier.operator = "<="
                     THEN UpdateLessEqual(split_latest_version, specifier)
                     ELSE IF specifier.operator = "<"
                     THEN UpdateLess(latest_version, specifier)
                     ELSE UpdateCompatible(latest_version, split_latest_version, specifier)
             IN  Finish(current_specifier_set \ {specifier}, {specifier},
                        updated_specifiers)

\* update_specifier_set(latest_version, current_specifier_set), for one
\* enumeration order of the set.
update_specifier_set(raw_latest, current_specifier_set, order) ==
    IF SpecifierSetContains(current_specifier_set, raw_latest)
    THEN UpdateIncluded(raw_latest, current_specifier_set, order)
    ELSE UpdateNotIncluded(SemanticVersion(raw_latest), raw_latest,
                           current_specifier_set, order)

\* ---- inputs ----

RawVersions ==
    {v \in UNION {[1..n -> 0..MaxWeight] : n \in 1..MaxSegments} :
        SumSeq(v) <= MaxWeight}

Specifiers ==
    {s \in [operator : Operators, version : RawVersions] : ValidSpecifier(s)}

\* SpecifierSet(...) holds no two equal specifiers.
SpecifierSets ==
    {S \in {{a, b} : a, b \in Specifiers} :
        \A x, y \in S : SpecifierEqual(x, y) => x = y}

NotRun == Outcome("none", {}, {}, <<>>)

Init ==
    /\ current \in SpecifierSets
    /\ latest \in RawVersions
    /\ pc = "start"
    /\ first = NotRun
    /\ second = NotRun
    /\ versions = Unused /\ compared = Unused
    /\ arguments = Unused /\ constructed = Unused /\ reparsed = Unused
    /\ request = Unused /\ decision = Unused
    /\ PreviousUnused /\ FindUnused /\ RulesUnused

\* The caller applies update_specifier_set to the declared constraint set.
Update ==
    /\ pc = "start"
    /\ \E order \in Enumerations(current) :
           first' = update_specifier_set(latest, current, order)
    /\ pc' = "updated"
    /\ UNCHANGED <<current, latest, second>>
    /\ UNCHANGED <<orderVars, constructVars, ignoreVars,
                   previousVars, findVars, rulesVars>>

\* A later run applies it to the set the first run wrote, with the same latest.
UpdateAgain ==
    /\ pc = "updated"
    /\ first.status = "ok"
    /\ \E order \in Enumerations(first.specifier_set) :
           second' = update_specifier_set(latest, first.specifier_set, order)
    /\ pc' = "again"
    /\ UNCHANGED <<current, latest, first>>
    /\ UNCHANGED <<orderVars, constructVars, ignoreVars,
                   previousVars, findVars, rulesVars>>

Next == Update \/ UpdateAgain

Spec == Init /\ [][Next]_vars

\* ---- the claims ----

Ran == pc # "start"

Returned == Ran /\ first.status = "ok"

\* `latest` satisfies every constraint of `current`.
Admitted == SpecifierSetContains(current, latest)

RepinOperators == {"~=", "=="}

BoundOperators == {"<=", "<", "~="}

WithOperator(S, ops) == {s \in S : s.operator \in ops}

\* v is latest cut to at most n written segments.
IsLatestTruncatedTo(v, n) ==
    /\ Len(v) = Min(n, Len(latest))
    /\ \A i \in 1..Len(v) : v[i] = latest[i]

\* The returned set holds the specifier n (up to Specifier equality).
ResultHas(n) == \E r \in first.specifier_set : SpecifierEqual(r, n)

\* C1: whenever update_specifier_set returns a set, latest satisfies every
\* constraint of the returned set.
C1_ReturnedSetAdmitsLatest ==
    Returned => SpecifierSetContains(first.specifier_set, latest)

\* C2: when latest is already admitted, a set with a `~=`/`==` constraint gets
\* exactly one of them replaced by the same operator with latest truncated to
\* the segments of the original; a set without one is returned unchanged.
C2_AdmittedRepinsOne ==
    (Ran /\ Admitted) =>
        /\ first.status = "ok"
        /\ IF WithOperator(current, RepinOperators) = {}
           THEN first.specifier_set = current
           ELSE \E s \in WithOperator(current, RepinOperators) :
                  \E n \in [operator : {s.operator}, version : {Take(latest, Len(s.version))}] :
                     /\ IsLatestTruncatedTo(n.version, Len(s.version))
                     /\ ResultHas(n)
                     /\ current \ {s} \subseteq first.specifier_set
                     /\ \A r \in first.specifier_set :
                            r \in current \ {s} \/ SpecifierEqual(r, n)

\* The operator the priority `<=`, then `<`, then `~=` selects in a set.
PriorityOperator(S) ==
    IF WithOperator(S, {"<="}) # {} THEN "<="
    ELSE IF WithOperator(S, {"<"}) # {} THEN "<"
    ELSE "~="

\* C3: when latest is not admitted and several constraints use `<=`, `<` or
\* `~=`, the one rewritten is chosen by operator priority `<=`, `<`, `~=`,
\* whatever the enumeration order of the set.
C3_RewrittenByOperatorPriority ==
    (Ran /\ ~Admitted /\ Cardinality(WithOperator(current, BoundOperators)) > 1) =>
        \A s \in first.removed : s.operator = PriorityOperator(current)

\* C4: when latest is not admitted and a `<=` bound is rewritten, the new
\* constraint is `<=` with latest truncated to the segments of the old bound.
C4_LessEqualTruncatesLatest ==
    \A s \in first.removed :
        (Ran /\ ~Admitted /\ s.operator = "<=") =>
            /\ first.status = "ok"
            /\ Len(first.updated) = 1
            /\ first.updated[1].operator = "<="
            /\ IsLatestTruncatedTo(first.updated[1].version, Len(s.version))
            /\ ResultHas(first.updated[1])

C4_Witness ==
    /\ Ran /\ ~Admitted /\ first.status = "ok"
    /\ Len(latest) = 3
    /\ \E s \in first.removed :
          /\ s.operator = "<=" /\ Len(s.version) = 2
          /\ first.updated[1] # s
          /\ first.updated[1] \in first.specifier_set

\* C5: when latest is not admitted and a `<` bound is rewritten, the new
\* exclusive bound is strictly above latest and is the next major, minor or
\* patch of latest written with the 1, 2 or 3 segments of the old bound.
C5_LessStepsAboveLatest ==
    \A s \in first.removed :
        (Ran /\ ~Admitted /\ s.operator = "<") =>
            /\ first.status = "ok"
            /\ Len(first.updated) = 1
            /\ first.updated[1].operator = "<"
            /\ ResultHas(first.updated[1])
            /\ VersionLess(latest, first.updated[1].version)
            /\ LET v == first.updated[1].version
                   n == Len(s.version)
               IN  /\ Len(v) = n
                   /\ \A i \in 1..(n - 1) : v[i] = Release(latest, i)
                   /\ v[n] = Release(latest, n) + 1

C5_Witness ==
    /\ Ran /\ ~Admitted /\ first.status = "ok"
    /\ \E s \in first.removed :
          /\ s.operator = "<" /\ Len(s.version) = 2
          /\ VersionLess(s.version, latest)
          /\ first.updated[1] \in first.specifier_set
          /\ first.updated[1] # s

\* C6: when latest is not admitted and `~=v` is rewritten, a higher major of
\* latest replaces it by `>=` v padded to three segments and `<` the next
\* major of latest; otherwise `~=` is kept with latest truncated to the
\* segments of v.
C6_CompatibleExpandsOrRepins ==
    \A s \in first.removed :
        (Ran /\ ~Admitted /\ s.operator = "~=") =>
            /\ first.status = "ok"
            /\ IF latest[1] > s.version[1]
               THEN /\ Len(first.updated) = 2
                    /\ first.updated[1] =
                          MakeSpecifier(">=", <<s.version[1], s.version[2],
                                                Release(s.version, 3)>>)
                    /\ first.updated[2] = MakeSpecifier("<", <<latest[1] + 1>>)
                    /\ ResultHas(first.updated[1]) /\ ResultHas(first.updated[2])
               ELSE /\ Len(first.updated) = 1
                    /\ first.updated[1].operator = "~="
                    /\ IsLatestTruncatedTo(first.updated[1].version, Len(s.version))
                    /\ ResultHas(first.updated[1])

\* C7: a lone three-segment `~=` constraint updated to a latest with a higher
\* major becomes the single constraint `~=` latest, with three segments.
C7_CompatibleKeptAcrossMajor ==
    \A s \in current :
        (/\ Ran /\ current = {s} /\ s.operator = "~=" /\ Len(s.version) = 3
         /\ Len(latest) = 3 /\ latest[1] > s.version[1]) =>
            /\ first.status = "ok"
            /\ first.specifier_set = {MakeSpecifier("~=", latest)}

\* C8: when latest is not admitted and no constraint uses `<=`, `<` or `~=`,
\* the call fails with UnableToResolve and returns no set.
C8_NoBoundUnableToResolve ==
    (Ran /\ ~Admitted /\ WithOperator(current, BoundOperators) = {}) =>
        first.status = "UnableToResolve" /\ first.specifier_set = {}

C8_Witness ==
    /\ Ran /\ ~Admitted
    /\ \E s \in current : s.operator = ">="
    /\ \E s \in current : s.operator = "=="
    /\ first.status = "UnableToResolve"

\* latest has a higher major than the `~=` constraint s that does not admit it.
MajorBump(s) == s.operator = "~=" /\ ~Admitted /\ latest[1] > s.version[1]

\* C9: a successful call returns current itself, or current with one
\* constraint taken out and one put in (two when a `~=` is expanded across a
\* major); every other constraint of current is in the result unchanged.
C9_AtMostOneConstraintChanged ==
    Returned =>
        \/ first.specifier_set = current
        \/ \E s \in current :
              /\ first.specifier_set # current
              /\ current \ {s} \subseteq first.specifier_set
              /\ Cardinality(first.specifier_set \ current)
                    <= (IF MajorBump(s) THEN 2 ELSE 1)

C9_Witness ==
    /\ Returned
    /\ \E s, t \in current :
          /\ s # t
          /\ MajorBump(s)
          /\ s \notin first.specifier_set
          /\ t \in first.specifier_set
          /\ Cardinality(first.specifier_set \ current) = 2

Plus == 43

Hyphen == 45

Dot == 46

Zero == 48

LetterA == 97

Digits == Zero .. (Zero + 9)

Letters == (65 .. 90) \cup (97 .. 122)

None == <<>>

Some(value) == <<value>>

\* s < t for two Python str: the first differing code point decides, and a
\* proper prefix is the smaller one.
StrLess(s, t) ==
    \E i \in 1 .. (Min(Len(s), Len(t)) + 1) :
        /\ \A j \in 1 .. (i - 1) : s[j] = t[j]
        /\ \/ i > Len(s) /\ i <= Len(t)
           \/ i <= Len(s) /\ i <= Len(t) /\ s[i] < t[i]

\* int(s) for a str of decimal digits.
RECURSIVE IntOf(_)
IntOf(s) ==
    IF s = <<>> THEN 0
    ELSE 10 * IntOf(SubSeq(s, 1, Len(s) - 1)) + (s[Len(s)] - Zero)

\* str(n) for an int, which is what an f-string puts for it.
RECURSIVE DecimalOf(_)
DecimalOf(n) ==
    IF n < 0 THEN <<Hyphen>> \o DecimalOf(0 - n)
    ELSE IF n < 10 THEN <<Zero + n>>
    ELSE DecimalOf(n \div 10) \o <<Zero + (n % 10)>>

\* The first position of code point c in s, 0 when there is none.
IndexOf(s, c) ==
    IF \E i \in 1 .. Len(s) : s[i] = c
    THEN Minimum({i \in 1 .. Len(s) : s[i] = c})
    ELSE 0

\* s.split(sep)
RECURSIVE Split(_, _)
Split(s, sep) ==
    LET i == IndexOf(s, sep)
    IN  IF i = 0 THEN <<s>>
        ELSE <<SubSeq(s, 1, i - 1)>> \o Split(SubSeq(s, i + 1, Len(s)), sep)

\* sep.join(parts)
RECURSIVE Join(_, _)
Join(parts, sep) ==
    IF parts = <<>> THEN <<>>
    ELSE IF Len(parts) = 1 THEN parts[1]
    ELSE parts[1] \o <<sep>> \o Join(Tail(parts), sep)

\* 0|[1-9]\d*
NumericIdentifier(s) ==
    /\ s # <<>>
    /\ \A i \in 1 .. Len(s) : s[i] \in Digits
    /\ Len(s) > 1 => s[1] # Zero

\* [0-9a-zA-Z-]+
BuildIdentifier(s) ==
    /\ s # <<>>
    /\ \A i \in 1 .. Len(s) : s[i] \in Digits \cup Letters \cup {Hyphen}

\* 0|[1-9]\d*|\d*[a-zA-Z-][0-9a-zA-Z-]*
PreReleaseIdentifier(s) ==
    \/ NumericIdentifier(s)
    \/ BuildIdentifier(s) /\ \E i \in 1 .. Len(s) : s[i] \notin Digits

\* The pre_release group: identifiers with dots between them.
PreReleaseText(text) ==
    \A i \in 1 .. Len(Split(text, Dot)) : PreReleaseIdentifier(Split(text, Dot)[i])

\* The build group: identifiers with dots between them.
BuildText(text) ==
    \A i \in 1 .. Len(Split(text, Dot)) : BuildIdentifier(Split(text, Dot)[i])

\* re.match(_REGEX, version): the groups, or no match.  No part before the
\* build can hold a plus, and the release holds no hyphen, so the first plus
\* starts the build and the first hyphen before it starts the pre-release.
Match(version) ==
    LET plus == IndexOf(version, Plus)
        head == IF plus = 0 THEN version ELSE SubSeq(version, 1, plus - 1)
        build == IF plus = 0 THEN None
                 ELSE Some(SubSeq(version, plus + 1, Len(version)))
        hyphen == IndexOf(head, Hyphen)
        release == IF hyphen = 0 THEN head ELSE SubSeq(head, 1, hyphen - 1)
        pre_release == IF hyphen = 0 THEN None
                       ELSE Some(SubSeq(head, hyphen + 1, Len(head)))
        numbers == Split(release, Dot)
    IN  IF /\ Len(numbers) <= MaxSegments
           /\ \A i \in 1 .. Len(numbers) : NumericIdentifier(numbers[i])
           /\ pre_release # None => PreReleaseText(pre_release[1])
           /\ build # None => BuildText(build[1])
        THEN [matched |-> TRUE,
              major |-> numbers[1],
              minor |-> IF Len(numbers) >= 2 THEN Some(numbers[2]) ELSE None,
              patch |-> IF Len(numbers) >= 3 THEN Some(numbers[3]) ELSE None,
              pre_release |-> pre_release,
              build |-> build]
        ELSE [matched |-> FALSE]

ValueError == [status |-> "ValueError"]

\* What __init__ leaves in the object; text is the str the object is.
Object(text, major, minor, patch, pre_release, build) ==
    [status |-> "ok", text |-> text,
     major |-> major, minor |-> minor, patch |-> patch,
     pre_release |-> IF pre_release # None /\ pre_release[1] # <<>>
                     THEN pre_release ELSE None,
     build |-> IF build # None /\ build[1] # <<>> THEN build ELSE None]

\* SemanticVersion(version) for a str: an empty version makes __new__ call
\* _build_version without a major.
SemanticVersionOf(version) ==
    IF version = <<>> THEN ValueError
    ELSE LET match == Match(version)
         IN  IF ~match.matched THEN ValueError
             ELSE Object(version,
                         IntOf(match.major),
                         IF match.minor # None THEN IntOf(match.minor[1]) ELSE 0,
                         IF match.patch # None THEN IntOf(match.patch[1]) ELSE 0,
                         match.pre_release,
                         match.build)

\* _build_version(major, minor, patch, pre_release, build) for int numbers.
build_version(fields) ==
    IF fields.major = None THEN ValueError
    ELSE IF fields.patch # None /\ fields.minor = None THEN ValueError
    ELSE IF fields.pre_release # None /\ fields.patch = None THEN ValueError
    ELSE IF fields.build # None /\ fields.patch = None THEN ValueError
    ELSE [status |-> "ok",
          text |->
              DecimalOf(fields.major[1])
              \o (IF fields.minor # None
                  THEN <<Dot>> \o DecimalOf(fields.minor[1]) ELSE <<>>)
              \o (IF fields.patch # None
                  THEN <<Dot>> \o DecimalOf(fields.patch[1]) ELSE <<>>)
              \o (IF fields.pre_release # None
                  THEN <<Hyphen>> \o fields.pre_release[1] ELSE <<>>)
              \o (IF fields.build # None
                  THEN <<Plus>> \o fields.build[1] ELSE <<>>)]

\* SemanticVersion(major=.., minor=.., ..): version is None, so __init__ runs
\* no match and takes the fields as they are.
SemanticVersionFrom(fields) ==
    LET built == build_version(fields)
    IN  IF built.status # "ok" THEN ValueError
        ELSE Object(built.text,
                    fields.major[1],
                    IF fields.minor # None THEN fields.minor[1] ELSE 0,
                    IF fields.patch # None THEN fields.patch[1] ELSE 0,
                    fields.pre_release,
                    fields.build)

\* __str__ that leaves the pre-release out.
FullStrWithoutPreRelease(semver) ==
    DecimalOf(semver.major) \o <<Dot>> \o DecimalOf(semver.minor)
    \o <<Dot>> \o DecimalOf(semver.patch)
    \o (IF semver.build # None THEN <<Plus>> \o semver.build[1] ELSE <<>>)

\* __str__
FullStr(semver) ==
    DecimalOf(semver.major) \o <<Dot>> \o DecimalOf(semver.minor)
    \o <<Dot>> \o DecimalOf(semver.patch)
    \o (IF semver.pre_release # None
        THEN <<Hyphen>> \o semver.pre_release[1] ELSE <<>>)
    \o (IF semver.build # None THEN <<Plus>> \o semver.build[1] ELSE <<>>)

\* __lt__ that stops at the patch.
ltIgnoringPreRelease(self, other) ==
    \/ self.major < other.major
    \/ /\ self.major = other.major
       /\ \/ self.minor < other.minor
          \/ /\ self.minor = other.minor
             /\ self.patch < other.patch

\* __lt__ that ranks a version before its own pre-releases.
ltReleaseFirst(self, other) ==
    \/ self.major < other.major
    \/ /\ self.major = other.major
       /\ \/ self.minor < other.minor
          \/ /\ self.minor = other.minor
             /\ \/ self.patch < other.patch
                \/ /\ self.patch = other.patch
                   /\ IF other.pre_release = None THEN FALSE
                      ELSE IF self.pre_release = None THEN TRUE
                      ELSE StrLess(self.pre_release[1], other.pre_release[1])

\* __lt__
lt(self, other) ==
    \/ self.major < other.major
    \/ /\ self.major = other.major
       /\ \/ self.minor < other.minor
          \/ /\ self.minor = other.minor
             /\ \/ self.patch < other.patch
                \/ /\ self.patch = other.patch
                   /\ IF self.pre_release = None THEN FALSE
                      ELSE IF other.pre_release = None THEN TRUE
                      ELSE StrLess(self.pre_release[1], other.pre_release[1])

\* __eq__
eq(self, other) ==
    /\ self.major = other.major
    /\ self.minor = other.minor
    /\ self.patch = other.patch
    /\ self.pre_release = other.pre_release

\* __le__
le(self, other) == lt(self, other) \/ eq(self, other)

\* __ne__
ne(self, other) == ~eq(self, other)

\* __ge__
ge(self, other) == ~lt(self, other)

\* __gt__
gt(self, other) == ~le(self, other)

\* ---- the inputs of the SemanticVersion specifications ----

MaxIdentifiers == 1     \* bound: dot-separated identifiers in a pre-release or build

\* "2", "11", "a", "-"
Identifiers == {<<Zero + 2>>, <<Zero + 1, Zero + 1>>, <<LetterA>>, <<Hyphen>>}

\* The texts of one to n of the identifiers, joined by dots.
DottedTexts(identifiers, n) ==
    {Join(parts, Dot) : parts \in UNION {[1 .. k -> identifiers] : k \in 1 .. n}}

\* None, or Some of one of the texts.
Optional(texts) == {None} \cup {Some(text) : text \in texts}

\* <major>.<minor>.<patch>-<pre_release>+<build> as it is written.
Written(release, pre_release, build) ==
    Join(release, Dot)
    \o (IF pre_release # None THEN <<Hyphen>> \o pre_release[1] ELSE <<>>)
    \o (IF build # None THEN <<Plus>> \o build[1] ELSE <<>>)

Decimals(numbers) == [i \in 1 .. Len(numbers) |-> DecimalOf(numbers[i])]

\* "1", "1.1", "1.1.1", "2.0.0" with no or one of the pre-releases.
OrderVersions ==
    {Written(Decimals(release), pre_release, None) :
        release \in {<<1>>, <<1, 1>>, <<1, 1, 1>>, <<2, 0, 0>>},
        pre_release \in Optional(DottedTexts(Identifiers, MaxIdentifiers))}

\* SemanticVersion(version) of each of them, worked out once.
OrderSemanticVersion ==
    [version \in OrderVersions |-> SemanticVersionOf(version)]

NotCompared == [status |-> "none"]

InitOrder ==
    /\ versions \in [1 .. 3 -> OrderVersions]
    /\ compared = NotCompared
    /\ current = Unused /\ latest = Unused /\ pc = Unused
    /\ first = Unused /\ second = Unused
    /\ arguments = Unused /\ constructed = Unused /\ reparsed = Unused
    /\ request = Unused /\ decision = Unused
    /\ PreviousUnused /\ FindUnused /\ RulesUnused

\* Makes the three SemanticVersion objects and applies each rich comparison
\* to each pair of them.
Compare ==
    /\ compared = NotCompared
    /\ \E semver \in {[i \in 1 .. 3 |-> OrderSemanticVersion[versions[i]]]} :
           compared' =
               [status |-> "compared",
                semver |-> semver,
                lt |-> [i, j \in 1 .. 3 |-> lt(semver[i], semver[j])],
                le |-> [i, j \in 1 .. 3 |-> le(semver[i], semver[j])],
                eq |-> [i, j \in 1 .. 3 |-> eq(semver[i], semver[j])],
                ne |-> [i, j \in 1 .. 3 |-> ne(semver[i], semver[j])],
                ge |-> [i, j \in 1 .. 3 |-> ge(semver[i], semver[j])],
                gt |-> [i, j \in 1 .. 3 |-> gt(semver[i], semver[j])]]
    /\ UNCHANGED <<versions, updateVars, constructVars, ignoreVars,
                   previousVars, findVars, rulesVars>>

NextOrder == Compare

SpecOrder == InitOrder /\ [][NextOrder]_vars

\* ---- the claims on the order of SemanticVersion ----

Compared == compared.status = "compared"

\* Exactly one of the three holds.
ExactlyOne(a, b, c) == (a /\ ~b /\ ~c) \/ (~a /\ b /\ ~c) \/ (~a /\ ~b /\ c)

SameRelease(a, b) == a.major = b.major /\ a.minor = b.minor /\ a.patch = b.patch

\* C11: on parsed versions exactly one of a < b, a == b, a > b holds, a > b
\* is b < a, and a < b with b < c gives a < c.
C11_TotalOrder ==
    Compared =>
        /\ \A i, j \in 1 .. 3 :
              /\ ExactlyOne(compared.lt[i, j], compared.eq[i, j], compared.gt[i, j])
              /\ compared.gt[i, j] <=> compared.lt[j, i]
        /\ \A i, j, k \in 1 .. 3 :
              compared.lt[i, j] /\ compared.lt[j, k] => compared.lt[i, k]

\* Two pre-releases of one release below the release itself.
C11_Witness ==
    /\ Compared
    /\ SameRelease(compared.semver[1], compared.semver[2])
    /\ SameRelease(compared.semver[2], compared.semver[3])
    /\ compared.semver[1].pre_release # None
    /\ compared.semver[2].pre_release # None
    /\ compared.semver[3].pre_release = None
    /\ compared.lt[1, 2] /\ compared.lt[2, 3] /\ compared.lt[1, 3]
    /\ compared.gt[3, 1]

\* C12: a version without pre-release is strictly greater than every version
\* of the same major, minor and patch that has a pre-release.
C12_ReleaseAbovePreRelease ==
    Compared =>
        \A i, j \in 1 .. 3 :
            (/\ SameRelease(compared.semver[i], compared.semver[j])
             /\ compared.semver[i].pre_release = None
             /\ compared.semver[j].pre_release # None) =>
                /\ compared.gt[i, j] /\ compared.ge[i, j] /\ compared.ne[i, j]
                /\ ~compared.lt[i, j] /\ ~compared.le[i, j] /\ ~compared.eq[i, j]

\* "1.1" above "1.1.0-a".
C12_Witness ==
    /\ Compared
    /\ Len(versions[1]) < Len(versions[2])
    /\ SameRelease(compared.semver[1], compared.semver[2])
    /\ compared.semver[1].pre_release = None
    /\ compared.semver[2].pre_release = Some(<<LetterA>>)
    /\ compared.gt[1, 2]

\* SemVer.org item 11 for two pre-releases: the first differing identifier
\* decides, numerically when both are digits only, a digits-only identifier
\* below any other, otherwise by code points; a pre-release that is the
\* beginning of the other one is below it.
AllDigits(s) == \A i \in 1 .. Len(s) : s[i] \in Digits

IdentifierPrecedes(a, b) ==
    IF AllDigits(a) /\ AllDigits(b) THEN IntOf(a) < IntOf(b)
    ELSE IF AllDigits(a) THEN TRUE
    ELSE IF AllDigits(b) THEN FALSE
    ELSE StrLess(a, b)

PreReleasePrecedes(p, q) ==
    LET a == Split(p, Dot)
        b == Split(q, Dot)
    IN  \E i \in 1 .. (Min(Len(a), Len(b)) + 1) :
            /\ \A j \in 1 .. (i - 1) : a[j] = b[j]
            /\ \/ i > Len(a) /\ i <= Len(b)
               \/ i <= Len(a) /\ i <= Len(b) /\ IdentifierPrecedes(a[i], b[i])

\* C13: between two pre-releases of one release, a < b is the precedence of
\* SemVer.org item 11.
C13_PreReleaseItem11 ==
    Compared =>
        \A i, j \in 1 .. 3 :
            (/\ SameRelease(compared.semver[i], compared.semver[j])
             /\ compared.semver[i].pre_release # None
             /\ compared.semver[j].pre_release # None) =>
                (compared.lt[i, j] <=>
                    PreReleasePrecedes(compared.semver[i].pre_release[1],
                                       compared.semver[j].pre_release[1]))

\* ---------------------------------------------------------------------------
\* Constructing a SemanticVersion, from a str or from the fields, and making
\* one again from its str().
\* ---------------------------------------------------------------------------

\* An int argument that Python takes as true.
TruthyInt(argument) == argument # None /\ argument[1] # 0

\* A str argument that Python takes as true.
TruthyStr(argument) == argument # None /\ argument[1] # <<>>

\* SemanticVersion(version, major=.., minor=.., patch=.., pre_release=..,
\* build=..): __new__, then __init__.
SemanticVersionNew(args) ==
    IF args.version # None
    THEN IF \/ TruthyInt(args.major) \/ TruthyInt(args.minor)
            \/ TruthyInt(args.patch)
            \/ TruthyStr(args.pre_release) \/ TruthyStr(args.build)
         THEN ValueError
         ELSE SemanticVersionOf(args.version[1])
    ELSE SemanticVersionFrom(args)

\* "0", "11" and, with a leading zero, "01"
NumberTexts == {<<Zero>>, <<Zero + 1, Zero + 1>>, <<Zero, Zero + 1>>}

\* The identifiers, and "01", "" and "+".
AnyIdentifiers == Identifiers \cup {<<Zero, Zero + 1>>, <<>>, <<Plus>>}

AnyTexts == Optional(DottedTexts(AnyIdentifiers, MaxIdentifiers))

Arguments(version, major, minor, patch, pre_release, build) ==
    [version |-> version, major |-> major, minor |-> minor, patch |-> patch,
     pre_release |-> pre_release, build |-> build]

\* One to four numbers, joined by dots when written.
Releases == UNION {[1 .. n -> NumberTexts] : n \in 1 .. (MaxSegments + 1)}

NotConstructed == [status |-> "none"]

\* The call has a version alone, written with or without a pre-release and a
\* build; or fields alone; or a version, empty or not, along with a major.
InitConstruct ==
    /\ \/ \E release \in Releases, pre_release \in AnyTexts, build \in AnyTexts :
              arguments = Arguments(Some(Written(release, pre_release, build)),
                                    None, None, None, None, None)
       \/ \E major \in Optional({0 - 1, 0, 2}), minor \in Optional({0 - 1, 0, 2}),
             patch \in Optional({0, 2}),
             pre_release \in AnyTexts, build \in AnyTexts :
              arguments = Arguments(None, major, minor, patch, pre_release, build)
       \/ \E version \in {<<>>, <<Zero + 2>>}, major \in {0, 2} :
              arguments = Arguments(Some(version), Some(major),
                                    None, None, None, None)
    /\ constructed = NotConstructed
    /\ reparsed = NotConstructed
    /\ current = Unused /\ latest = Unused /\ pc = Unused
    /\ first = Unused /\ second = Unused
    /\ versions = Unused /\ compared = Unused
    /\ request = Unused /\ decision = Unused
    /\ PreviousUnused /\ FindUnused /\ RulesUnused

Construct ==
    /\ constructed = NotConstructed
    /\ constructed' = SemanticVersionNew(arguments)
    /\ UNCHANGED <<arguments, reparsed, updateVars, orderVars, ignoreVars,
                   previousVars, findVars, rulesVars>>

\* SemanticVersion(str(semver))
Reparse ==
    /\ constructed.status = "ok"
    /\ reparsed = NotConstructed
    /\ reparsed' = SemanticVersionOf(FullStr(constructed))
    /\ UNCHANGED <<arguments, constructed, updateVars, orderVars, ignoreVars,
                   previousVars, findVars, rulesVars>>

NextConstruct == Construct \/ Reparse

SpecConstruct == InitConstruct /\ [][NextConstruct]_vars

\* ---- the claims on constructing a SemanticVersion ----

\* The call gave only a version, and the version matched the grammar.
ParsedFromStr == arguments.version # None /\ constructed.status = "ok"

\* C14: for every grammar-valid s, SemanticVersion(str(SemanticVersion(s)))
\* succeeds and is equal to SemanticVersion(s).
C14_RoundTrip ==
    (ParsedFromStr /\ reparsed # NotConstructed) =>
        /\ reparsed.status = "ok"
        /\ eq(reparsed, constructed) /\ eq(constructed, reparsed)
        /\ ~ne(reparsed, constructed)

\* s has one number, a pre-release and a build with a leading zero.
C14_Witness ==
    /\ ParsedFromStr
    /\ Len(Split(arguments.version[1], Dot)) = 1
    /\ constructed.pre_release = Some(<<LetterA>>)
    /\ constructed.build = Some(<<Zero, Zero + 1>>)
    /\ arguments.version[1] # FullStr(constructed)
    /\ reparsed.status = "ok"
    /\ reparsed.text = FullStr(constructed)
    /\ reparsed.build = constructed.build

\* The invariants of a SemanticVersion: no negative number, and a
\* pre_release and a build that are dot-separated identifiers of letters,
\* digits and hyphens.
Invariants(semver) ==
    /\ semver.major >= 0 /\ semver.minor >= 0 /\ semver.patch >= 0
    /\ semver.pre_release # None => BuildText(semver.pre_release[1])
    /\ semver.build # None => BuildText(semver.build[1])

\* C15: a construction either gives an object that has the invariants or
\* raises ValueError.
C15_ConstructedIsValid ==
    constructed # NotConstructed =>
        \/ constructed.status = "ok" /\ Invariants(constructed)
        \/ constructed.status = "ValueError"

\* ---------------------------------------------------------------------------
\* ignore_version.  current and latest are lists of str, the parts of a
\* version split at the dots; a version rule is an operator and the text of
\* a version; semver_rules is the empty dict (None) or holds the list of
\* update types of the key "version-update".
\* ---------------------------------------------------------------------------

Decided(ignore) == [status |-> "ok", ignore |-> ignore]

Raised(exception) == [status |-> exception, ignore |-> FALSE]

\* The release of a version text, as packaging's Version reads it.
Numbers(text) ==
    [i \in 1 .. Len(Split(text, Dot)) |-> IntOf(Split(text, Dot)[i])]

\* Specifier(f"{operator}{version}") of a rule with a known operator.
RuleSpecifier(rule) == MakeSpecifier(rule.operator, Numbers(rule.version))

\* SpecifierSet() that takes `~=` with any number of segments.
ValidRuleAnySegments(rule) ==
    rule.operator \in Operators \cup {"==="}

\* SpecifierSet() takes the rule: `===` is an operator of packaging, with any
\* text after it; the seven others need a version, `~=` one of two segments.
ValidRule(rule) ==
    \/ rule.operator = "==="
    \/ rule.operator \in Operators /\ ValidSpecifier(RuleSpecifier(rule))

\* `item in Specifier(rule)` that takes `~=` for `>=`.
RuleContainsAtLeast(rule, item) ==
    IF rule.operator = "==="
    THEN Join(Decimals(Numbers(item)), Dot) = rule.version
    ELSE IF rule.operator = "~="
    THEN ~VersionLess(Numbers(item), Numbers(rule.version))
    ELSE SpecifierContains(RuleSpecifier(rule), Numbers(item))

\* `item in Specifier(rule)`; `===` compares str(Version(item)) with the text.
RuleContains(rule, item) ==
    IF rule.operator = "==="
    THEN Join(Decimals(Numbers(item)), Dot) = rule.version
    ELSE SpecifierContains(RuleSpecifier(rule), Numbers(item))

\* _ignore_version_rules_specifier_set that takes one satisfied rule for enough.
ignore_version_rules_any(latest_parts, version_rules) ==
    IF version_rules = <<>> THEN Decided(FALSE)
    ELSE IF \E i \in 1 .. Len(version_rules) : ~ValidRule(version_rules[i])
    THEN Raised("InputError")
    ELSE LET semver == SemanticVersionOf(Join(latest_parts, Dot))
         IN  IF semver.status # "ok" THEN Raised("ValueError")
             ELSE Decided(\E i \in 1 .. Len(version_rules) :
                              RuleContains(version_rules[i], semver.text))

\* _ignore_version_rules_specifier_set
ignore_version_rules_specifier_set(latest_parts, version_rules) ==
    IF version_rules = <<>> THEN Decided(FALSE)
    ELSE IF \E i \in 1 .. Len(version_rules) : ~ValidRule(version_rules[i])
    THEN Raised("InputError")
    ELSE LET semver == SemanticVersionOf(Join(latest_parts, Dot))
         IN  IF semver.status # "ok" THEN Raised("ValueError")
             ELSE Decided(\A i \in 1 .. Len(version_rules) :
                              RuleContains(version_rules[i], semver.text))

Has(list, item) == \E i \in 1 .. Len(list) : list[i] = item

\* _ignore_semver_rules; the parts are compared as str.
ignore_semver_rules(current_parts, latest_parts, version_update) ==
    IF \E i \in 1 .. Len(version_update) :
           version_update[i] \notin {"major", "minor", "patch"}
    THEN Raised("InputParserError")
    ELSE IF Has(version_update, "major")
    THEN Decided(latest_parts[1] # current_parts[1])
    ELSE IF Has(version_update, "minor")
    THEN Decided(/\ Len(latest_parts) >= 2
                 /\ Len(current_parts) >= 2
                 /\ StrLess(current_parts[2], latest_parts[2])
                 /\ latest_parts[1] = current_parts[1])
    ELSE IF Has(version_update, "patch")
    THEN Decided(/\ Len(latest_parts) >= 3
                 /\ Len(current_parts) >= 3
                 /\ StrLess(current_parts[3], latest_parts[3])
                 /\ latest_parts[1] = current_parts[1]
                 /\ latest_parts[2] = current_parts[2])
    ELSE Decided(FALSE)

\* ignore_version without the rule for no rules at all.
ignore_version_without_blanket(current_parts, latest_parts, version_rules, semver_rules) ==
    LET by_version == ignore_version_rules_specifier_set(latest_parts, version_rules)
    IN  IF by_version.status # "ok" \/ by_version.ignore THEN by_version
        ELSE IF semver_rules # None
        THEN ignore_semver_rules(current_parts, latest_parts, semver_rules[1])
        ELSE Decided(FALSE)

\* ignore_version
ignore_version(current_parts, latest_parts, version_rules, semver_rules) ==
    IF version_rules = <<>> /\ semver_rules = None THEN Decided(TRUE)
    ELSE LET by_version ==
                 ignore_version_rules_specifier_set(latest_parts, version_rules)
         IN  IF by_version.status # "ok" \/ by_version.ignore THEN by_version
             ELSE IF semver_rules # None
             THEN ignore_semver_rules(current_parts, latest_parts, semver_rules[1])
             ELSE Decided(FALSE)

\* ---- the inputs of ignore_version ----

\* Versions of one to three parts: a major "1" or "2", a minor "1", "2" or
\* "11", a patch "1" or "2".
PartsOfVersions ==
    LET majors == {<<Zero + 1>>, <<Zero + 2>>}
        minors == {<<Zero + 1>>, <<Zero + 2>>, <<Zero + 1, Zero + 1>>}
        patches == {<<Zero + 1>>, <<Zero + 2>>}
    IN  {<<major>> : major \in majors}
        \cup {<<major, minor>> : major \in majors, minor \in minors}
        \cup {<<major, minor, patch>> :
                 major \in majors, minor \in minors, patch \in patches}

\* The seven operators, `===`, and `=~`, which is no operator.
RuleOperators == Operators \cup {"===", "=~"}

\* The versions of the rules: "1", "2", "1.2", "2.2", "1.2.2", "2.2.2".
RuleVersions ==
    {Join(parts, Dot) :
        parts \in {v \in PartsOfVersions :
                      \A i \in 2 .. Len(v) : v[i] = <<Zero + 2>>}}

MaxRules == 2           \* bound: version rules in one call

MaxUpdateTypes == 2     \* bound: update types in one call

Rule(operator, version) == [operator |-> operator, version |-> version]

\* The rules that come several at a time: `>=2`, `<2.2` and `==1.2`.
JointRules ==
    {Rule(">=", <<Zero + 2>>),
     Rule("<", <<Zero + 2, Dot, Zero + 2>>),
     Rule("==", <<Zero + 1, Dot, Zero + 2>>)}

\* No rule, one rule, or several of the joint rules.
VersionRules ==
    {<<>>}
    \cup {<<Rule(operator, version)>> :
             operator \in RuleOperators, version \in RuleVersions}
    \cup UNION {[1 .. n -> JointRules] : n \in 2 .. MaxRules}

\* {}, or {"version-update": [...]} with a list of update types.
SemverRules ==
    Optional(UNION {[1 .. n -> {"major", "minor", "patch", "build"}] :
                       n \in 0 .. MaxUpdateTypes})

\* No rule, `>=1`, which every latest here satisfies, and `<1`, which none does.
FewVersionRules ==
    {<<>>, <<Rule(">=", <<Zero + 1>>)>>, <<Rule("<", <<Zero + 1>>)>>}

\* {}, or {"version-update": [...]} with no or one update type.
FewSemverRules ==
    Optional({<<>>, <<"major">>, <<"minor">>, <<"build">>})

\* The call with these arguments.
Request(current_parts, latest_parts, version_rules, semver_rules) ==
    [current |-> current_parts, latest |-> latest_parts,
     version_rules |-> version_rules, semver_rules |-> semver_rules]

NotDecided == [status |-> "none", ignore |-> FALSE]

InitIgnore ==
    /\ \E current_parts \in PartsOfVersions, latest_parts \in PartsOfVersions :
           \/ \E version_rules \in VersionRules, semver_rules \in FewSemverRules :
                  request = Request(current_parts, latest_parts,
                                    version_rules, semver_rules)
           \/ \E version_rules \in FewVersionRules, semver_rules \in SemverRules :
                  request = Request(current_parts, latest_parts,
                                    version_rules, semver_rules)
    /\ decision = NotDecided
    /\ current = Unused /\ latest = Unused /\ pc = Unused
    /\ first = Unused /\ second = Unused
    /\ versions = Unused /\ compared = Unused
    /\ arguments = Unused /\ constructed = Unused /\ reparsed = Unused
    /\ PreviousUnused /\ FindUnused /\ RulesUnused

Ignore ==
    /\ decision = NotDecided
    /\ decision' = ignore_version(request.current, request.latest,
                                  request.version_rules, request.semver_rules)
    /\ UNCHANGED <<request, updateVars, orderVars, constructVars,
                   previousVars, findVars, rulesVars>>

NextIgnore == Ignore

SpecIgnore == InitIgnore /\ [][NextIgnore]_vars

\* ---- the claims on ignore_version ----

IgnoreRan == decision # NotDecided

\* The call had one version rule and no update types.
OnlyRule(operator) ==
    /\ IgnoreRan
    /\ Len(request.version_rules) = 1
    /\ request.version_rules[1].operator = operator
    /\ request.semver_rules = None

\* The call had no version rule and one update type.
OnlyUpdateType(type) ==
    /\ IgnoreRan
    /\ request.version_rules = <<>>
    /\ request.semver_rules = Some(<<type>>)

\* C16: without version rules and without update types the answer is true,
\* whatever current and latest are.
C16_NoRulesIgnoresAll ==
    (IgnoreRan /\ request.version_rules = <<>> /\ request.semver_rules = None) =>
        decision = Decided(TRUE)

\* No rules, and a latest of another major and another length than current.
C16_Witness ==
    /\ IgnoreRan
    /\ request.version_rules = <<>> /\ request.semver_rules = None
    /\ request.latest[1] # request.current[1]
    /\ Len(request.latest) # Len(request.current)
    /\ decision.ignore

\* The version v with its k-th segment raised by one and nothing after it.
Bumped(v, k) == [i \in 1 .. k |-> IF i = k THEN v[i] + 1 ELSE v[i]]

\* v <= item < upper
InRange(item, v, upper) == ~VersionLess(item, v) /\ VersionLess(item, upper)

C17_WitnessNextMajor ==
    /\ OnlyRule("~=")
    /\ Numbers(request.version_rules[1].version) = <<1, 2>>
    /\ Numbers(Join(request.latest, Dot)) = <<2, 1>>
    /\ decision = Decided(FALSE)

\* C18: a `~=` rule with a version of one segment raises InputError,
\* whatever current, latest and the update types are.
C18_CompatibleOneSegmentRaises ==
    (/\ IgnoreRan
     /\ \E i \in 1 .. Len(request.version_rules) :
           /\ request.version_rules[i].operator = "~="
           /\ Len(Split(request.version_rules[i].version, Dot)) = 1) =>
        decision = Raised("InputError")

\* `~=2` with a latest 2.2.2 and the update type "major".
C18_Witness ==
    /\ IgnoreRan
    /\ request.version_rules = <<[operator |-> "~=", version |-> <<Zero + 2>>]>>
    /\ request.latest = <<<<Zero + 2>>, <<Zero + 2>>, <<Zero + 2>>>>
    /\ request.semver_rules = Some(<<"major">>)
    /\ decision.status = "InputError"

\* C19: a version rule whose operator is not one of the seven raises
\* InputParserError.
C19_UnknownOperatorRaises ==
    (/\ IgnoreRan
     /\ \E i \in 1 .. Len(request.version_rules) :
           request.version_rules[i].operator \notin Operators) =>
        decision = Raised("InputParserError")

\* The update type matches, the parts read as numbers.
UpdateTypeMatches(type, current_parts, latest_parts) ==
    LET c == [i \in 1 .. Len(current_parts) |-> IntOf(current_parts[i])]
        l == [i \in 1 .. Len(latest_parts) |-> IntOf(latest_parts[i])]
    IN  CASE type = "major" -> l[1] # c[1]
          [] type = "minor" ->
                Len(l) >= 2 /\ Len(c) >= 2 /\ l[1] = c[1] /\ l[2] > c[2]
          [] type = "patch" ->
                /\ Len(l) >= 3 /\ Len(c) >= 3
                /\ l[1] = c[1] /\ l[2] = c[2] /\ l[3] > c[3]

\* C20: with one update type and no version rule the answer is true exactly
\* when the update type matches numerically.
C20_UpdateTypeMatchesNumerically ==
    \A type \in {"major", "minor", "patch"} :
        OnlyUpdateType(type) =>
            /\ decision.status = "ok"
            /\ decision.ignore <=>
                   UpdateTypeMatches(type, request.current, request.latest)

ValidUpdateTypes == {"major", "minor", "patch"}

\* The call had update types, all of them valid, and at least one.
ValidUpdateTypeList ==
    /\ request.semver_rules # None
    /\ Len(request.semver_rules[1]) >= 1
    /\ \A i \in 1 .. Len(request.semver_rules[1]) :
           request.semver_rules[1][i] \in ValidUpdateTypes

\* C21: with valid update types and no version rule, the answer is true if
\* any one of the update types, given alone, matches current and latest.
C21_AnyUpdateTypeMatches ==
    (IgnoreRan /\ request.version_rules = <<>> /\ ValidUpdateTypeList) =>
        /\ decision.status = "ok"
        /\ decision.ignore <=>
               \E i \in 1 .. Len(request.semver_rules[1]) :
                   ignore_semver_rules(request.current, request.latest,
                                       <<request.semver_rules[1][i]>>).ignore

\* C22: an update type other than major, minor and patch raises
\* InputParserError, whatever the version rules, current and latest are.
C22_UnknownUpdateTypeRaises ==
    (/\ IgnoreRan
     /\ request.semver_rules # None
     /\ \E i \in 1 .. Len(request.semver_rules[1]) :
           request.semver_rules[1][i] \notin ValidUpdateTypes) =>
        decision = Raised("InputParserError")

\* All the version rules are valid ones of the seven operators.
ValidVersionRules ==
    \A i \in 1 .. Len(request.version_rules) :
        /\ request.version_rules[i].operator \in Operators
        /\ ValidRule(request.version_rules[i])

\* latest satisfies every version rule, and there is one.
SatisfiesVersionRules ==
    /\ request.version_rules # <<>>
    /\ \A i \in 1 .. Len(request.version_rules) :
           SpecifierContains(RuleSpecifier(request.version_rules[i]),
                             Numbers(Join(request.latest, Dot)))

\* C23: with valid rules, and some, the answer is true exactly when latest
\* satisfies all the version rules or an update type matches.
C23_IgnoreIsVersionsOrUpdateTypes ==
    (/\ IgnoreRan
     /\ ValidVersionRules
     /\ request.semver_rules = None \/ request.semver_rules = Some(<<>>)
            \/ ValidUpdateTypeList
     /\ request.version_rules # <<>> \/ ValidUpdateTypeList) =>
        /\ decision.status = "ok"
        /\ decision.ignore <=>
               \/ SatisfiesVersionRules
               \/ /\ ValidUpdateTypeList
                  /\ \E i \in 1 .. Len(request.semver_rules[1]) :
                         UpdateTypeMatches(request.semver_rules[1][i],
                                           request.current, request.latest)

\* ---- update_specifier_set: the upper bound ----

UpperBoundOperators == {"<", "<="}

\* C30: when latest is not admitted and an upper bound (`<` or `<=`) is
\* replaced, the new bound's version is not below the replaced bound's.
C30_UpperBoundNeverTightened ==
    (Returned /\ ~Admitted) =>
        \A old \in WithOperator(first.removed, UpperBoundOperators) :
            \A i \in 1 .. Len(first.updated) :
                ~VersionLess(first.updated[i].version, old.version)

\* ---- SemanticVersion.previous_version ----

MaxNumber == 2          \* bound: the small values of a version segment
DefaultFiller == 99

\* max_filler as the caller gives it.
NoFiller == [kind |-> "None"]

IntFiller(value) == [kind |-> "int", value |-> value]

StrFiller(text) == [kind |-> "str", text |-> text]

FloatFiller == [kind |-> "float"]

TypeError == [status |-> "TypeError"]

\* int(text) for a str: decimal digits after an optional minus sign.
IntOfStr(text) ==
    LET digits == IF text # <<>> /\ text[1] = Hyphen THEN Tail(text) ELSE text
    IN  IF digits = <<>> \/ \E i \in 1 .. Len(digits) : digits[i] \notin Digits
        THEN ValueError
        ELSE [status |-> "ok",
              value |-> IF digits = text THEN IntOf(digits) ELSE 0 - IntOf(digits)]

\* max_filler after the None, str and isinstance steps.
Filler(max_filler) ==
    CASE max_filler.kind = "None" -> [status |-> "ok", value |-> DefaultFiller]
      [] max_filler.kind = "int" -> [status |-> "ok", value |-> max_filler.value]
      [] max_filler.kind = "str" -> IntOfStr(max_filler.text)
      [] OTHER -> TypeError

\* f"{major}.{minor}.{patch}"
Dotted(major, minor, patch) ==
    DecimalOf(major) \o <<Dot>> \o DecimalOf(minor) \o <<Dot>> \o DecimalOf(patch)

\* previous_version that fills a segment at 0 without borrowing.
previous_version_without_borrow(self, version_part, max_filler) ==
    IF version_part \notin {"major", "minor", "patch"} THEN ValueError
    ELSE LET filler == Filler(max_filler)
         IN  IF filler.status # "ok" THEN filler
             ELSE SemanticVersionOf(
                 IF version_part = "major"
                 THEN Dotted(self.major - 1, filler.value, filler.value)
                 ELSE IF version_part = "minor"
                 THEN IF self.minor = 0
                      THEN Dotted(self.major, filler.value, filler.value)
                      ELSE Dotted(self.major, self.minor - 1, filler.value)
                 ELSE IF self.patch = 0
                      THEN Dotted(self.major, self.minor, filler.value)
                      ELSE Dotted(self.major, self.minor, self.patch - 1))

\* SemanticVersion.previous_version
previous_version(self, version_part, max_filler) ==
    IF version_part \notin {"major", "minor", "patch"} THEN ValueError
    ELSE LET filler == Filler(max_filler)
         IN  IF filler.status # "ok" THEN filler
             ELSE SemanticVersionOf(
                 IF version_part = "major"
                 THEN Dotted(self.major - 1, filler.value, filler.value)
                 ELSE IF version_part = "minor"
                 THEN IF self.minor = 0
                      THEN Dotted(self.major - 1, filler.value, filler.value)
                      ELSE Dotted(self.major, self.minor - 1, filler.value)
                 ELSE IF self.patch = 0
                      THEN IF self.minor = 0
                           THEN Dotted(self.major - 1, filler.value, filler.value)
                           ELSE Dotted(self.major, self.minor - 1, filler.value)
                      ELSE Dotted(self.major, self.minor, self.patch - 1))

\* ---- inputs ----

SegmentValues == (0 .. MaxNumber) \cup {10}

Fillers ==
    {NoFiller, FloatFiller}
    \cup {IntFiller(value) : value \in {0 - 1, 0, 1, DefaultFiller}}
    \cup {StrFiller(text) : text \in {<<Zero + 9>>, <<Hyphen, Zero + 1>>, <<LetterA>>}}

VersionParts == {"major", "minor", "patch", "build"}

Subject(version, version_part, max_filler) ==
    [version |-> version, version_part |-> version_part, max_filler |-> max_filler]

NotDecremented == [status |-> "none"]

InitPrevious ==
    /\ \E release \in UNION {[1 .. n -> SegmentValues] : n \in 1 .. MaxSegments},
          pre_release \in Optional({<<LetterA>>}),
          version_part \in VersionParts,
          max_filler \in Fillers :
           subject = Subject(SemanticVersionOf(Written(Decimals(release),
                                                       pre_release, None)),
                             version_part, max_filler)
    /\ previous = NotDecremented
    /\ EarlierUnused /\ FindUnused /\ RulesUnused

Decrement ==
    /\ previous = NotDecremented
    /\ previous' = previous_version(subject.version, subject.version_part,
                                    subject.max_filler)
    /\ UNCHANGED <<subject, updateVars, orderVars, constructVars, ignoreVars,
                   findVars, rulesVars>>

NextPrevious == Decrement

SpecPrevious == InitPrevious /\ [][NextPrevious]_vars

\* ---- the claims ----

PreviousRan == previous # NotDecremented

\* The call has a known version part and a max_filler that can be the value
\* of a version segment: None, or an int or str of digits that is not negative.
PreviousArgumentsAccepted ==
    /\ subject.version_part \in {"major", "minor", "patch"}
    /\ Filler(subject.max_filler).status = "ok"
    /\ Filler(subject.max_filler).value >= 0

\* The segments the claim names: the named segment one lower, or, at 0, the
\* next higher segment that is not 0 one lower and the ones after it filled.
PreviousSegments(self, version_part, filler) ==
    IF version_part = "patch" /\ self.patch > 0
    THEN <<self.major, self.minor, self.patch - 1>>
    ELSE IF version_part \in {"minor", "patch"} /\ self.minor > 0
    THEN <<self.major, self.minor - 1, filler>>
    ELSE <<self.major - 1, filler, filler>>

MaxPyMajor == 3
MaxPyMinor == 12
MaxPyPatch == 18
StartSlack == 1         \* bound: how far past a range a start segment is drawn

\* A marker `python_version <operator> "<version>"`.
PythonVersionMarker(specifier) ==
    [kind |-> "python_version", specifier |-> specifier]

\* A marker on another key: every other key of the environment is "", so the
\* marker has the same value whatever python_version is.
OtherMarker(value) == [kind |-> "other", value |-> value]

\* marker.evaluate(environment) with python_version the given str
evaluate(marker, python_version) ==
    IF marker.kind = "python_version"
    THEN SpecifierContains(marker.specifier, python_version)
    ELSE marker.value

\* _semi_valid_python_version
semi_valid_python_version(version) ==
    /\ version.major \in 1 .. MaxPyMajor
    /\ version.minor \in 0 .. MaxPyMinor
    /\ version.patch \in 0 .. MaxPyPatch

\* The version part _next_version steps.
StepPart(split_py_version) ==
    IF Len(split_py_version) = 1 THEN "major"
    ELSE IF Len(split_py_version) = 2 THEN "minor"
    ELSE "patch"

\* _next_version, as the str the new object is
NextPyVersion(python_version, split_py_version) ==
    Str(next_version(SemanticVersion(python_version), StepPart(split_py_version)))

\* SemanticVersion.shortened
shortened(semver) ==
    IF semver.patch = 0
    THEN IF semver.minor = 0 THEN <<semver.major>>
         ELSE <<semver.major, semver.minor>>
    ELSE <<semver.major, semver.minor, semver.patch>>

\* The while condition that asks the marker only.
LoopConditionMarkerOnly(marker, python_version) ==
    ~evaluate(marker, python_version)

\* The while condition.
LoopCondition(marker, python_version) ==
    \/ ~semi_valid_python_version(SemanticVersion(python_version))
    \/ ~evaluate(marker, python_version)

\* The stepped segment has left its range: it only grows, so from here on
\* _semi_valid_python_version is False on every pass.
PastRange(python_version, split_py_version) ==
    LET version == SemanticVersion(python_version)
        part == StepPart(split_py_version)
    IN  \/ part = "major" /\ version.major > MaxPyMajor
        \/ part = "minor" /\ version.minor > MaxPyMinor
        \/ part = "patch" /\ version.patch > MaxPyPatch

\* ---- inputs ----

PyMajors == 0 .. (MaxPyMajor + StartSlack)

PyMinors == {0, 7} \cup ((MaxPyMinor - 1) .. (MaxPyMinor + StartSlack))

PyPatches == {0} \cup ((MaxPyPatch - 1) .. (MaxPyPatch + StartSlack))

ProjectPyVersions ==
    {<<major>> : major \in PyMajors}
    \cup {<<major, minor>> : major \in {2, MaxPyMajor}, minor \in PyMinors}
    \cup {<<MaxPyMajor, minor, patch>> : minor \in {7, MaxPyMinor}, patch \in PyPatches}
    \cup {<<MaxPyMajor, 7, 0, 0>>}

MarkerVersions ==
    {<<MaxPyMajor>>, <<MaxPyMajor, 8>>, <<MaxPyMajor, MaxPyMinor>>,
     <<MaxPyMajor, 7, MaxPyPatch>>, <<MaxPyMajor + 1>>}

Markers ==
    {PythonVersionMarker(specifier) :
        specifier \in {candidate \in [operator : Operators, version : MarkerVersions] :
                          ValidSpecifier(candidate)}}
    \cup {OtherMarker(value) : value \in BOOLEAN}

Search(marker, project_py_version) ==
    [marker |-> marker, project_py_version |-> project_py_version]

NotCalled == [status |-> "none"]

\* In the loop; parity is the number of passes of the loop body so far, modulo 2.
Searching(parity) == [status |-> "searching", parity |-> parity]

Found(version) == [status |-> "ok", version |-> version]

InitFind ==
    /\ \E marker \in Markers, project_py_version \in ProjectPyVersions :
           search = Search(marker, project_py_version)
    /\ min_py_version = <<>>
    /\ steps = 0
    /\ answer = NotCalled
    /\ EarlierUnused /\ PreviousUnused /\ RulesUnused

\* Up to the loop: SemanticVersion(project_py_version) and the environment.
Start ==
    /\ answer = NotCalled
    /\ IF Len(search.project_py_version) > MaxSegments
       THEN answer' = ValueError /\ UNCHANGED min_py_version
       ELSE answer' = Searching(0) /\ min_py_version' = search.project_py_version
    /\ UNCHANGED <<search, steps>>
    /\ UNCHANGED <<updateVars, orderVars, constructVars, ignoreVars,
                   previousVars, rulesVars>>

\* One pass of the loop body.
Step ==
    /\ answer.status = "searching"
    /\ LoopCondition(search.marker, min_py_version)
    /\ ~PastRange(min_py_version, search.project_py_version)
    /\ min_py_version' = NextPyVersion(min_py_version, search.project_py_version)
    /\ steps' = steps + 1
    /\ answer' = Searching(1 - answer.parity)
    /\ UNCHANGED search
    /\ UNCHANGED <<updateVars, orderVars, constructVars, ignoreVars,
                   previousVars, rulesVars>>

\* One pass of the loop body after the stepped segment has left its range.
\* The condition is True before and after each such pass, so of these passes
\* the model keeps the parity only: min_py_version and steps stay those of
\* the first version past the range.
StepPastRange ==
    /\ answer.status = "searching"
    /\ LoopCondition(search.marker, min_py_version)
    /\ PastRange(min_py_version, search.project_py_version)
    /\ answer' = Searching(1 - answer.parity)
    /\ UNCHANGED <<search, min_py_version, steps>>
    /\ UNCHANGED <<updateVars, orderVars, constructVars, ignoreVars,
                   previousVars, rulesVars>>

\* The loop condition is False: return min_py_version.shortened().
Return ==
    /\ answer.status = "searching"
    /\ ~LoopCondition(search.marker, min_py_version)
    /\ answer' = Found(shortened(SemanticVersion(min_py_version)))
    /\ UNCHANGED <<search, min_py_version, steps>>
    /\ UNCHANGED <<updateVars, orderVars, constructVars, ignoreVars,
                   previousVars, rulesVars>>

NextFind == Start \/ Step \/ StepPastRange \/ Return

SpecFind == InitFind /\ [][NextFind]_vars

\* The call runs on its thread until it returns or raises.
SpecFindFair == SpecFind /\ WF_vars(NextFind)

\* ---- the claims ----

\* The k-th version of the sequence start, next(start), next(next(start)), ...:
\* k steps raise the stepped segment by k and, from the first step on, the
\* segments after it are 0.
NthCandidate(k) ==
    LET start == search.project_py_version
    IN  IF k = 0 THEN start
        ELSE IF Len(start) = 1 THEN <<start[1] + k, 0, 0>>
        ELSE IF Len(start) = 2 THEN <<start[1], start[2] + k, 0>>
        ELSE <<start[1], start[2], start[3] + k>>

\* The candidate is semi-valid and satisfies the marker.
GoodCandidate(python_version) ==
    /\ Release(python_version, 1) \in 1 .. MaxPyMajor
    /\ Release(python_version, 2) \in 0 .. MaxPyMinor
    /\ Release(python_version, 3) \in 0 .. MaxPyPatch
    /\ evaluate(search.marker, python_version)

\* The version without the trailing segments that are 0, the major kept.
ShortForm(python_version) ==
    IF Release(python_version, 3) # 0
    THEN <<Release(python_version, 1), Release(python_version, 2),
           Release(python_version, 3)>>
    ELSE IF Release(python_version, 2) # 0
    THEN <<Release(python_version, 1), Release(python_version, 2)>>
    ELSE <<Release(python_version, 1)>>

C27_SearchTerminates ==
    <>(answer.status \in {"ok", "ValueError", "SearchExhausted"})

\* ---- the ignore options: parse_ignore_entries, parse_ignore_rules, ----
\* ---- create_ignore_rules                                          ----

Space == 32
Exclamation == 33
LessThan == 60
EqualsSign == 61
GreaterThan == 62
Tilde == 126
MaxEntries == 2         \* bound: `--ignore` options in one call
MaxSpecifiers == 2      \* bound: specifiers in the set create_ignore_rules gets

\* One key=value pair of an entry; the entry is the sequence of the pairs the
\* separator stands between.  The value of a `versions` pair is kept as its
\* code points (text), a name or an update type as a whole (word).
TextPair(key, text) == [key |-> key, text |-> text, word |-> ""]

WordPair(key, word) == [key |-> key, text |-> <<>>, word |-> word]

\* value.strip() of the code points of a str
RECURSIVE Strip(_)
Strip(text) ==
    IF text # <<>> /\ Head(text) = Space THEN Strip(Tail(text))
    ELSE IF text # <<>> /\ text[Len(text)] = Space
    THEN Strip(SubSeq(text, 1, Len(text) - 1))
    ELSE text

\* match.group("value").strip(); the names and the update types are drawn
\* without blanks around them.
StripValue(pair) ==
    IF pair.key = "versions" THEN Strip(pair.text) ELSE pair.word

\* A dict of ignore rules: a key that is not in it is None.
Rules(versions_list, update_types_list) ==
    [versions |-> versions_list, update_types |-> update_types_list]

Failed(exception) == [status |-> exception]

Parsed(mapping) == [status |-> "ok", mapping |-> mapping]

\* The first pass over the pairs of an entry, and the match of each pair.
EntryError(entry) ==
    IF Len(entry) > 3 THEN "InputParserError"
    ELSE IF \E i \in 1 .. Len(entry) :
                entry[i].key \notin {"dependency-name", "versions", "update-types"}
    THEN "InputParserError"
    ELSE IF \E i, j \in 1 .. Len(entry) : i # j /\ entry[i].key = entry[j].key
    THEN "InputParserError"
    ELSE IF \A i \in 1 .. Len(entry) : entry[i].key # "dependency-name"
    THEN "InputError"
    ELSE "none"

\* ignore_entry[key] of an entry that has passed, None without the key
EntryValue(entry, key) ==
    LET at == {i \in 1 .. Len(entry) : entry[i].key = key}
    IN  IF at = {} THEN None ELSE Some(StripValue(entry[CHOOSE i \in at : TRUE]))

\* {key: [value] for key, value in ignore_entry.items()}
FirstRules(entry) ==
    LET versions_value == EntryValue(entry, "versions")
        update_types_value == EntryValue(entry, "update-types")
    IN  Rules(IF versions_value = None THEN None ELSE Some(<<versions_value[1]>>),
              IF update_types_value = None THEN None
              ELSE Some(<<update_types_value[1]>>))

\* ignore_entries[dependency_name][key].append(value) for the keys of the
\* entry: a key the dict of the dependency does not have is a KeyError.
Appended(old, entry) ==
    LET versions_value == EntryValue(entry, "versions")
        update_types_value == EntryValue(entry, "update-types")
    IN  IF \/ versions_value # None /\ old.versions = None
           \/ update_types_value # None /\ old.update_types = None
        THEN Failed("KeyError")
        ELSE [status |-> "ok",
              rules |->
                  Rules(IF versions_value = None THEN old.versions
                        ELSE Some(Append(old.versions[1], versions_value[1])),
                        IF update_types_value = None THEN old.update_types
                        ELSE Some(Append(old.update_types[1], update_types_value[1])))]

\* parse_ignore_entries: the loop over the entries, from the dict so far.
RECURSIVE parse_ignore_entries(_, _)
parse_ignore_entries(entries, mapping) ==
    IF entries = <<>> THEN Parsed(mapping)
    ELSE LET entry == Head(entries)
             error == EntryError(entry)
             dependency_name == EntryValue(entry, "dependency-name")[1]
         IN  IF error # "none" THEN Failed(error)
             ELSE IF dependency_name \notin DOMAIN mapping
             THEN parse_ignore_entries(
                      Tail(entries),
                      [name \in DOMAIN mapping \cup {dependency_name} |->
                          IF name = dependency_name THEN FirstRules(entry)
                          ELSE mapping[name]])
             ELSE LET appended == Appended(mapping[dependency_name], entry)
                  IN  IF appended.status # "ok" THEN appended
                      ELSE parse_ignore_entries(
                               Tail(entries),
                               [mapping EXCEPT ![dependency_name] = appended.rules])

\* The text of an operator of the `versions` regular expression.
OperatorText(operator) ==
    CASE operator = ">" -> <<GreaterThan>>
      [] operator = "<" -> <<LessThan>>
      [] operator = "<=" -> <<LessThan, EqualsSign>>
      [] operator = ">=" -> <<GreaterThan, EqualsSign>>
      [] operator = "==" -> <<EqualsSign, EqualsSign>>
      [] operator = "!=" -> <<Exclamation, EqualsSign>>
      [] operator = "~=" -> <<Tilde, EqualsSign>>

StartsWith(text, prefix) ==
    Len(text) >= Len(prefix) /\ SubSeq(text, 1, Len(prefix)) = prefix

\* \s* at the start of the text: the text after its leading blanks.
RECURSIVE SkipSpaces(_)
SkipSpaces(text) ==
    IF text # <<>> /\ Head(text) = Space THEN SkipSpaces(Tail(text)) ELSE text

\* [0-9]+(?:\.[0-9]+){0,2}
VersionNumber(text) ==
    LET numbers == Split(text, Dot)
    IN  /\ Len(numbers) \in 1 .. 3
        /\ \A i \in 1 .. Len(numbers) :
               /\ numbers[i] # <<>>
               /\ \A j \in 1 .. Len(numbers[i]) : numbers[i][j] \in Digits

\* The operators with which the `versions` regular expression matches the
\* entry: the alternatives are tried in turn until the rest matches too.
MatchingOperators(versions_entry) ==
    {operator \in Operators :
        /\ StartsWith(versions_entry, OperatorText(operator))
        /\ VersionNumber(SkipSpaces(SubSeq(versions_entry,
                                           Len(OperatorText(operator)) + 1,
                                           Len(versions_entry))))}

\* match.groupdict() of a `versions` entry that matches; a version starts with
\* a digit, so one operator at most matches.
VersionsMatch(versions_entry) ==
    LET operator == CHOOSE candidate \in MatchingOperators(versions_entry) : TRUE
    IN  Rule(operator,
             SkipSpaces(SubSeq(versions_entry, Len(OperatorText(operator)) + 1,
                               Len(versions_entry))))

\* ^version-update:semver-(major|minor|patch)$
UpdateTypeMatch(update_type_entry) ==
    CASE update_type_entry = "version-update:semver-major" -> Some("major")
      [] update_type_entry = "version-update:semver-minor" -> Some("minor")
      [] update_type_entry = "version-update:semver-patch" -> Some("patch")
      [] OTHER -> None

ParsedRules(versions_list, update_types) ==
    [status |-> "ok", versions |-> versions_list, update_types |-> update_types]

\* parse_ignore_rules
parse_ignore_rules(some_rules) ==
    IF some_rules.versions = None /\ some_rules.update_types = None
    THEN ParsedRules(<<Rule(">=", <<Zero>>)>>, None)
    ELSE IF /\ some_rules.versions # None
            /\ \E i \in 1 .. Len(some_rules.versions[1]) :
                   MatchingOperators(some_rules.versions[1][i]) = {}
    THEN Failed("InputParserError")
    ELSE IF /\ some_rules.update_types # None
            /\ \E i \in 1 .. Len(some_rules.update_types[1]) :
                   UpdateTypeMatch(some_rules.update_types[1][i]) = None
    THEN Failed("InputParserError")
    ELSE ParsedRules(
             IF some_rules.versions = None THEN <<>>
             ELSE [i \in 1 .. Len(some_rules.versions[1]) |->
                      VersionsMatch(some_rules.versions[1][i])],
             IF some_rules.update_types = None THEN None
             ELSE Some([i \in 1 .. Len(some_rules.update_types[1]) |->
                           UpdateTypeMatch(some_rules.update_types[1][i])[1]]))

\* The specifiers of `order` with the `!=` operator, in that order.
RECURSIVE Excluded(_)
Excluded(order) ==
    IF order = <<>> THEN <<>>
    ELSE IF Head(order).operator = "!="
    THEN <<OperatorText("==") \o Head(order).version>> \o Excluded(Tail(order))
    ELSE Excluded(Tail(order))

\* create_ignore_rules; order is the order in which the set is iterated.
create_ignore_rules(order) == Rules(Some(Excluded(order)), None)

\* ---- inputs ----

\* `>=2`, `<2.2`, `==1.2`, ` >= 2 ` with blanks, and `=~2`, which is no rule.
VersionsValues ==
    {OperatorText(">=") \o <<Zero + 2>>,
     OperatorText("<") \o <<Zero + 2, Dot, Zero + 2>>,
     OperatorText("==") \o <<Zero + 1, Dot, Zero + 2>>,
     <<Space>> \o OperatorText(">=") \o <<Space, Zero + 2, Space>>,
     <<EqualsSign, Tilde, Zero + 2>>}

UpdateTypesValues ==
    {"version-update:semver-major", "version-update:semver-minor",
     "version-update:semver-build"}

DependencyName(name) == WordPair("dependency-name", name)

\* The entries: well-formed ones with the keys in either order, for two
\* dependencies, and the four kinds of entry the parser rejects.
Entries ==
    {<<DependencyName(name)>> : name \in {"test", "other"}}
    \cup {<<DependencyName("test"), TextPair("versions", value)>> :
             value \in VersionsValues}
    \cup {<<DependencyName("test"), WordPair("update-types", value)>> :
             value \in UpdateTypesValues}
    \cup {<<TextPair("versions", OperatorText("<") \o <<Zero + 2, Dot, Zero + 2>>),
            DependencyName("test")>>,
          <<DependencyName("test"),
            TextPair("versions", OperatorText(">=") \o <<Zero + 2>>),
            WordPair("update-types", "version-update:semver-minor")>>,
          <<DependencyName("other"),
            TextPair("versions", OperatorText(">=") \o <<Zero + 2>>)>>}
    \cup {<<TextPair("versions", OperatorText(">=") \o <<Zero + 2>>)>>,
          <<DependencyName("test"), DependencyName("other")>>,
          <<DependencyName("test"), TextPair("version", <<Zero + 2>>)>>,
          <<DependencyName("test"),
            TextPair("versions", OperatorText(">=") \o <<Zero + 2>>),
            WordPair("update-types", "version-update:semver-minor"),
            TextPair("versions", OperatorText("<") \o <<Zero + 2, Dot, Zero + 2>>)>>}

\* The specifiers of the set: `!=`, `>=`, `<` and `==` of "1", "2" and "1.2".
SetSpecifiers ==
    {Rule(operator, version) :
        operator \in {"!=", ">=", "<", "=="},
        version \in {<<Zero + 1>>, <<Zero + 2>>, <<Zero + 1, Dot, Zero + 2>>}}

\* current 1.1 or 2.1, and latest 1.2, 2, 2.1, 2.2 or 3, as lists of parts.
CurrentParts == {<<<<Zero + 1>>, <<Zero + 1>>>>, <<<<Zero + 2>>, <<Zero + 1>>>>}

LatestParts ==
    {<<<<Zero + 1>>, <<Zero + 2>>>>, <<<<Zero + 2>>>>, <<<<Zero + 2>>, <<Zero + 1>>>>,
     <<<<Zero + 2>>, <<Zero + 2>>>>, <<<<Zero + 3>>>>}

GivenEntries(entries, current_parts, latest_parts) ==
    [kind |-> "entries", entries |-> entries,
     current |-> current_parts, latest |-> latest_parts]

GivenSpecifierSet(specifier_set, current_parts, latest_parts) ==
    [kind |-> "specifier_set", specifier_set |-> specifier_set,
     current |-> current_parts, latest |-> latest_parts]

NotYet == [status |-> "none"]

InitRules ==
    /\ \E current_parts \in CurrentParts, latest_parts \in LatestParts :
           \/ \E n \in 0 .. MaxEntries : \E entries \in [1 .. n -> Entries] :
                  given = GivenEntries(entries, current_parts, latest_parts)
           \/ \E specifier_set \in SUBSET SetSpecifiers :
                  /\ Cardinality(specifier_set) <= MaxSpecifiers
                  /\ given = GivenSpecifierSet(specifier_set, current_parts,
                                               latest_parts)
    /\ stage = "given"
    /\ ignore_entries = NotYet
    /\ rules = NotYet
    /\ ignore_rules = NotYet
    /\ ignored = NotYet
    /\ EarlierUnused /\ PreviousUnused /\ FindUnused

\* parse_ignore_entries(entries, separator) on the `--ignore` options.
ParseEntries ==
    /\ stage = "given"
    /\ given.kind = "entries"
    /\ ignore_entries' = parse_ignore_entries(given.entries, <<>>)
    /\ stage' = "entries"
    /\ UNCHANGED <<given, rules, ignore_rules, ignored>>
    /\ UNCHANGED <<updateVars, orderVars, constructVars, ignoreVars,
                   previousVars, findVars>>

\* The rules of one of the dependencies are taken from the parsed entries.
TakeRules ==
    /\ stage = "entries"
    /\ ignore_entries.status = "ok"
    /\ \E name \in DOMAIN ignore_entries.mapping :
           rules' = ignore_entries.mapping[name]
    /\ stage' = "rules"
    /\ UNCHANGED <<given, ignore_entries, ignore_rules, ignored>>
    /\ UNCHANGED <<updateVars, orderVars, constructVars, ignoreVars,
                   previousVars, findVars>>

\* create_ignore_rules(specifier_set) on the set of a requirement.
CreateRules ==
    /\ stage = "given"
    /\ given.kind = "specifier_set"
    /\ \E order \in Enumerations(given.specifier_set) :
           rules' = create_ignore_rules(order)
    /\ stage' = "rules"
    /\ UNCHANGED <<given, ignore_entries, ignore_rules, ignored>>
    /\ UNCHANGED <<updateVars, orderVars, constructVars, ignoreVars,
                   previousVars, findVars>>

\* parse_ignore_rules(rules)
ParseRules ==
    /\ stage = "rules"
    /\ ignore_rules' = parse_ignore_rules(rules)
    /\ stage' = "parsed"
    /\ UNCHANGED <<given, ignore_entries, rules, ignored>>
    /\ UNCHANGED <<updateVars, orderVars, constructVars, ignoreVars,
                   previousVars, findVars>>

\* ignore_version(current, latest, version_rules, semver_rules) on the parsed
\* rules.
DecideIgnore ==
    /\ stage = "parsed"
    /\ ignore_rules.status = "ok"
    /\ ignored' = ignore_version(given.current, given.latest,
                                 ignore_rules.versions, ignore_rules.update_types)
    /\ stage' = "decided"
    /\ UNCHANGED <<given, ignore_entries, rules, ignore_rules>>
    /\ UNCHANGED <<updateVars, orderVars, constructVars, ignoreVars,
                   previousVars, findVars>>

NextRules == ParseEntries \/ TakeRules \/ CreateRules \/ ParseRules \/ DecideIgnore

SpecRules == InitRules /\ [][NextRules]_vars

\* ---- the claims ----

\* The entry is one the parser takes: at most three pairs, of different keys
\* of the three, one of them the dependency name.
WellFormed(entry) ==
    /\ Len(entry) <= 3
    /\ \A i \in 1 .. Len(entry) :
           entry[i].key \in {"dependency-name", "versions", "update-types"}
    /\ \A i, j \in 1 .. Len(entry) : entry[i].key = entry[j].key => i = j
    /\ \E i \in 1 .. Len(entry) : entry[i].key = "dependency-name"

\* The entry names the dependency / carries the key.
Names(entry, name) ==
    \E i \in 1 .. Len(entry) :
        entry[i].key = "dependency-name" /\ entry[i].word = name

Carries(entry, key) == \E i \in 1 .. Len(entry) : entry[i].key = key

\* The values of the key over the entries that name the dependency, in input
\* order.
RECURSIVE ValuesOf(_, _, _)
ValuesOf(entries, name, key) ==
    IF entries = <<>> THEN <<>>
    ELSE (IF Names(Head(entries), name) /\ Carries(Head(entries), key)
          THEN <<StripValue(Head(entries)[CHOOSE i \in 1 .. Len(Head(entries)) :
                                              Head(entries)[i].key = key])>>
          ELSE <<>>)
         \o ValuesOf(Tail(entries), name, key)

\* The list a parsed dict has for a key: none when the key is not in it.
ListOf(optional_list) == IF optional_list = None THEN <<>> ELSE optional_list[1]

EntriesParsed == stage # "given" /\ given.kind = "entries"

\* C24: for well-formed entries parse_ignore_entries returns a mapping that
\* has, for each dependency named and each key, the values of the key over
\* the entries naming the dependency, in input order.
C24_EntriesAccumulate ==
    (/\ EntriesParsed
     /\ \A i \in 1 .. Len(given.entries) : WellFormed(given.entries[i])) =>
        /\ ignore_entries.status = "ok"
        /\ \A name \in {"test", "other"} :
               IF \E i \in 1 .. Len(given.entries) : Names(given.entries[i], name)
               THEN /\ name \in DOMAIN ignore_entries.mapping
                    /\ ListOf(ignore_entries.mapping[name].versions) =
                           ValuesOf(given.entries, name, "versions")
                    /\ ListOf(ignore_entries.mapping[name].update_types) =
                           ValuesOf(given.entries, name, "update-types")
               ELSE name \notin DOMAIN ignore_entries.mapping

\* Two entries for one dependency, each with a `versions` filter that is a
\* rule, and nothing else; the decision on latest has been taken.
TwoVersionsEntries ==
    /\ stage = "decided"
    /\ given.kind = "entries"
    /\ Len(given.entries) = 2
    /\ \A i \in 1 .. 2 :
           /\ WellFormed(given.entries[i])
           /\ Names(given.entries[i], "test")
           /\ Carries(given.entries[i], "versions")
           /\ ~Carries(given.entries[i], "update-types")

\* latest satisfies the `versions` filter of the i-th entry.
SatisfiesEntry(i) ==
    LET filter == VersionsMatch(ValuesOf(<<given.entries[i]>>, "test", "versions")[1])
    IN  SpecifierContains(RuleSpecifier(filter), Numbers(Join(given.latest, Dot)))

\* C25 as stated: with two entries of one `versions` filter each, latest is
\* ignored when it satisfies the filter of at least one of the two.
C25_RepeatedEntriesCombineByOr ==
    TwoVersionsEntries =>
        /\ ignored.status = "ok"
        /\ ignored.ignore <=> (SatisfiesEntry(1) \/ SatisfiesEntry(2))

\* C25 amended: latest is ignored when it satisfies the filters of both.
C25_RepeatedEntriesCombineByAnd ==
    TwoVersionsEntries =>
        /\ ignored.status = "ok"
        /\ ignored.ignore <=> (SatisfiesEntry(1) /\ SatisfiesEntry(2))

\* latest satisfies the filter of one entry only, and is not ignored.
C25_Witness ==
    /\ TwoVersionsEntries
    /\ SatisfiesEntry(1) /\ ~SatisfiesEntry(2)
    /\ ignored = Decided(FALSE)

\* latest satisfies both filters, and is ignored.
C25_WitnessBoth ==
    /\ TwoVersionsEntries
    /\ given.entries[1] # given.entries[2]
    /\ SatisfiesEntry(1) /\ SatisfiesEntry(2)
    /\ ignored = Decided(TRUE)

\* The set excludes latest with a `!=` specifier.
ExcludesLatest ==
    \E specifier \in given.specifier_set :
        /\ specifier.operator = "!="
        /\ VersionEqual(Numbers(specifier.version),
                        Numbers(Join(given.latest, Dot)))

\* C29: the rules create_ignore_rules makes, parsed and evaluated, ignore
\* latest exactly when the set excludes it with a `!=` specifier.
C29_IgnoresExactlyTheExcluded ==
    (given.kind = "specifier_set" /\ stage \in {"parsed", "decided"}) =>
        /\ ignore_rules.status = "ok"
        /\ stage = "decided" =>
               /\ ignored.status = "ok"
               /\ ignored.ignore <=> ExcludesLatest

====
